---- MODULE Spec2Model ----
(***************************************************************************)
(* Pantryfy: the persisted pantry / shopping-list store                    *)
(* (src/store/usePantryStore.ts) and the expiration classifier             *)
(* (src/app/_layout.tsx, "Utility functions for handling expiration        *)
(* dates and status").                                                     *)
(*                                                                         *)
(* Time is counted in milliseconds since the epoch, as Date.getTime()      *)
(* does.  A YYYY-MM-DD string is represented by its day number since the   *)
(* epoch; parsing it (new Date(string)) yields UTC midnight of that day.   *)
(* An ISO timestamp (toISOString) is represented by the millisecond count  *)
(* it encodes.  A name is a sequence of characters.                        *)
(***************************************************************************)
EXTENDS Integers, Sequences, FiniteSets, TLC

VARIABLES
    items,         \* PantryStore.items
    shoppingList,  \* PantryStore.shoppingList
    now,           \* the device clock, ms since the epoch (Date.now())
    zone,          \* the device time zone: offset from UTC and one DST change
    lastCall,      \* history: the store operation called last, its arguments and result
    expInput,      \* classifier harness: the expirationDate passed last
    status,        \* classifier harness: what getExpirationStatus returned for it
    storage,       \* AsyncStorage under the store's key, the writes and the read in flight
    view,          \* what the read-only operation or sort called last was given and returned
    dialog         \* the Alert dialog a screen has open

vars == <<items, shoppingList, now, zone, lastCall, expInput, status,
          storage, view, dialog>>

---------------------------------------------------------------------------
(* Bounds of the model *)

MaxItems == 2       \* pantry items kept at most
MaxListed == 1      \* shopping entries kept at most, in the specification of the whole store
MaxShopping == 2    \* shopping entries kept at most, in the specification of the shopping list
MaxQuantity == 4    \* largest shopping quantity followed
MaxTicks == 1       \* clock advances followed in the specification of the shopping list
MaxDays == 2        \* days the clock moves on in the specification of the classifier
MaxPantry == 2      \* pantry items kept at most, in the specification of the pantry

(* Program constants *)

oneDay == 24 * 60 * 60 * 1000
oneHour == 60 * 60 * 1000
ExpiringDays == 3
LowStockThreshold == 2
RestockQuantity == 2
ReplaceQuantity == 1

(* The day the model starts on, and the instant (12:00 UTC of that day). *)
StartDay == 5 + 5
StartNow == StartDay * oneDay + 12 * oneHour

---------------------------------------------------------------------------
(* Strings *)

UpperCase == <<"A", "B", "C", "D", "E", "F", "G", "H", "I", "J", "K", "L", "M",
               "N", "O", "P", "Q", "R", "S", "T", "U", "V", "W", "X", "Y", "Z">>
LowerCase == <<"a", "b", "c", "d", "e", "f", "g", "h", "i", "j", "k", "l", "m",
               "n", "o", "p", "q", "r", "s", "t", "u", "v", "w", "x", "y", "z">>

\* the lower-case letter of each upper-case letter
LowerOf ==
    [c \in {UpperCase[i] : i \in DOMAIN UpperCase} |->
        LowerCase[CHOOSE i \in DOMAIN UpperCase : UpperCase[i] = c]]

\* String.prototype.toLowerCase
ToLowerCase(s) ==
    [i \in DOMAIN s |-> IF s[i] \in DOMAIN LowerOf THEN LowerOf[s[i]] ELSE s[i]]

\* { ...a, ...b }: the fields of a, overridden and extended by those of b
Spread(a, b) ==
    [k \in DOMAIN a \cup DOMAIN b |-> IF k \in DOMAIN b THEN b[k] ELSE a[k]]

---------------------------------------------------------------------------
(* The device's local time.  zone.std is the offset from UTC (ms east)    *)
(* before the instant zone.dstAt, zone.std + zone.dstDelta from it on.    *)

NoDst(std) == [std |-> std, dstAt |-> 0, dstDelta |-> 0]

OffsetAt(z, t) == IF t >= z.dstAt THEN z.std + z.dstDelta ELSE z.std

\* the local wall-clock reading of instant t, as ms since the epoch read as local
LocalWall(z, t) == t + OffsetAt(z, t)

\* the instant at which the local wall clock reads w (w not inside a DST change)
InstantOfWall(z, w) ==
    IF w - z.std < z.dstAt THEN w - z.std ELSE w - (z.std + z.dstDelta)

\* Date.prototype.setHours(0, 0, 0, 0): local midnight of t's local calendar day
SetHoursZero(z, t) ==
    LET wall == LocalWall(z, t)
    IN  InstantOfWall(z, wall - (wall % oneDay))

\* new Date("YYYY-MM-DD"): a date-only ISO string is UTC midnight of that day
ParseDate(day) == day * oneDay

\* Math.round(n / d) for d > 0: the nearest integer, halves rounded up
MathRound(n, d) == (n \div d) + (IF 2 * (n % d) >= d THEN 1 ELSE 0)

DaysBetweenFloor(date1, date2) == (date2 - date1) \div oneDay

daysBetween(date1, date2) ==
    LET diffTime == date2 - date1
    IN  MathRound(diffTime, oneDay)

GetExpirationStatusExclusive(expirationDate, t, z) ==
    LET today == SetHoursZero(z, t)
        expDate == SetHoursZero(z, ParseDate(expirationDate))
        daysUntilExpiration == daysBetween(today, expDate)
    IN  IF daysUntilExpiration < 0 THEN "expired"
        ELSE IF daysUntilExpiration < ExpiringDays THEN "expiring"
        ELSE "fresh"

getExpirationStatus(expirationDate, t, z) ==
    LET today == SetHoursZero(z, t)
        expDate == SetHoursZero(z, ParseDate(expirationDate))
        daysUntilExpiration == daysBetween(today, expDate)
    IN  IF daysUntilExpiration < 0 THEN "expired"
        ELSE IF daysUntilExpiration <= ExpiringDays THEN "expiring"
        ELSE "fresh"

isLowStock(quantity) == quantity < LowStockThreshold

---------------------------------------------------------------------------
(* Values of the model *)

Milk == <<"M", "i", "l", "k">>
milk == <<"m", "i", "l", "k">>
MILK == <<"M", "I", "L", "K">>
Bread == <<"B", "r", "e", "a", "d">>
Eggs == <<"E", "g", "g", "s">>

\* PantryItemFormData values addItem is called with: a low-stock item that
\* expires in three days, a low-stock item that expired yesterday, and a
\* well-stocked item that expired yesterday
PantryForms ==
    { [name |-> Milk, category |-> "Dairy", quantity |-> 1, unit |-> "liters",
       expirationDate |-> StartDay + 3],
      [name |-> milk, category |-> "Other", quantity |-> 1, unit |-> "pieces",
       expirationDate |-> StartDay - 1],
      [name |-> MILK, category |-> "Beverages", quantity |-> 3, unit |-> "bottles",
       expirationDate |-> StartDay - 1] }

\* Partial<PantryItemFormData> values updateItem is called with
UpdateForms ==
    { [expirationDate |-> StartDay + 4] }

\* argument lists addToShoppingList is called with from outside the store
ShoppingForms ==
    { [name |-> MILK, category |-> "Dairy", quantity |-> 1, unit |-> "liters",
       source |-> "manual"],
      [name |-> milk, category |-> "Other", quantity |-> 2, unit |-> "pieces",
       source |-> "low-stock"],
      [name |-> Eggs, category |-> "Dairy", quantity |-> 1, unit |-> "pieces",
       source |-> "manual"],
      [name |-> Bread, category |-> "Bakery", quantity |-> 1, unit |-> "pieces",
       source |-> "expired"] }

\* an id no operation of the store ever generated
UnknownId == <<0, 0>>

\* the device time zones the store specification starts in
StoreZones == { NoDst(0 - 5 * oneHour) }

---------------------------------------------------------------------------
(* History of calls *)

\* op: the operation; ret: the count an auto-add returned (0 otherwise);
\* found: whether its id or name argument, or for clearCheckedItems the checked
\* flag, matched an element;
\* args: the arguments of addToShoppingList; prior: the arguments of the call
\* before it, when that call was an addToShoppingList that appended an entry
NoData == [none |-> TRUE]
Call(op, ret, found, args, prior) ==
    [op |-> op, ret |-> ret, found |-> found, args |-> args, prior |-> prior]
NoCall == Call("none", 0, FALSE, NoData, NoData)

---------------------------------------------------------------------------
(* The store: src/store/usePantryStore.ts *)

\* `${Date.now()}-${Math.random().toString(36).substring(2, 9)}`
generateId(t, suffix) == <<t, suffix>>

Ids(list) == {list[i].id : i \in DOMAIN list}

\* What Math.random().toString(36).substring(2, 9) can yield when an id is
\* generated at instant t for a collection: a suffix is only ever compared for
\* equality, so the draws are followed up to renaming, the n-th distinct suffix
\* drawn in a millisecond being named n.  The draw is a suffix that an id of this
\* millisecond already carries, or the first one none of them carries.
RandomSuffixes(list, t) ==
    LET used == {list[i].id[2] : i \in {j \in DOMAIN list : list[j].id[1] = t}}
    IN  used \cup {CHOOSE n \in 0 .. Cardinality(used) :
                     n \notin used /\ \A m \in 0 .. Cardinality(used) : m \notin used => n <= m}

MinOf(S) == CHOOSE x \in S : \A y \in S : x <= y

FindByNameCaseSensitive(list, name) ==
    LET hits == {i \in DOMAIN list : list[i].name = name}
    IN  IF hits = {} THEN 0 ELSE MinOf(hits)

\* get().shoppingList.find(item => item.name.toLowerCase() === name.toLowerCase()):
\* the index of the first match, 0 for undefined
FindByName(list, name) ==
    LET hits == {i \in DOMAIN list : ToLowerCase(list[i].name) = ToLowerCase(name)}
    IN  IF hits = {} THEN 0 ELSE MinOf(hits)

\* the shopping list addToShoppingList leaves, called at instant t when
\* Math.random() yields suffix
addToShoppingList(list, name, category, quantity, unit, source, t, suffix) ==
    LET existing == FindByName(list, name)
    IN  IF existing # 0
        THEN [i \in DOMAIN list |->
                IF list[i].id = list[existing].id
                THEN [list[i] EXCEPT !.quantity = list[i].quantity + quantity]
                ELSE list[i]]
        ELSE Append(list, [id |-> generateId(t, suffix),
                           name |-> name,
                           category |-> category,
                           quantity |-> quantity,
                           unit |-> unit,
                           checked |-> FALSE,
                           source |-> source,
                           createdAt |-> t])

\* within the bounds of the model
InBounds(list, cap) ==
    /\ Len(list) <= cap
    /\ \A i \in DOMAIN list : list[i].quantity <= MaxQuantity

LowStockItemsWithExpired(pantry, t, z) ==
    SelectSeq(pantry, LAMBDA item : isLowStock(item.quantity))

\* items.filter(item => isLowStock(item.quantity) &&
\*                      getExpirationStatus(item.expirationDate) !== 'expired')
LowStockItems(pantry, t, z) ==
    SelectSeq(pantry, LAMBDA item :
        isLowStock(item.quantity)
        /\ getExpirationStatus(item.expirationDate, t, z) # "expired")

ExpiredItemsNotFresh(pantry, t, z) ==
    SelectSeq(pantry, LAMBDA item :
        getExpirationStatus(item.expirationDate, t, z) # "fresh")

\* items.filter(item => getExpirationStatus(item.expirationDate) === 'expired')
ExpiredItems(pantry, t, z) ==
    SelectSeq(pantry, LAMBDA item :
        getExpirationStatus(item.expirationDate, t, z) = "expired")

\* selected.forEach(item => addToShoppingList(item.name, item.category, quantity,
\*                                            item.unit, source)) at instant t:
\* the shopping lists it can leave, one for each way the suffixes are drawn
RECURSIVE ForEachAdd(_, _, _, _, _)
ForEachAdd(list, selected, quantity, source, t) ==
    IF selected = <<>>
    THEN {list}
    ELSE LET item == Head(selected)
         IN  UNION { ForEachAdd(addToShoppingList(list, item.name, item.category,
                                                  quantity, item.unit, source, t, suffix),
                                Tail(selected), quantity, source, t) :
                     suffix \in RandomSuffixes(list, t) }

AutoAddLowStockOwnQuantity(pantry, list, t, z) ==
    LET sel == LowStockItems(pantry, t, z)
    IN  IF sel = <<>> THEN {list}
        ELSE ForEachAdd(list, sel, sel[1].quantity, "low-stock", t)

\* the shopping lists autoAddLowStockToShoppingList can leave
AutoAddLowStockLists(pantry, list, t, z) ==
    ForEachAdd(list, LowStockItems(pantry, t, z), RestockQuantity, "low-stock", t)

AutoAddExpiredAsLowStock(pantry, list, t, z) ==
    ForEachAdd(list, ExpiredItems(pantry, t, z), ReplaceQuantity, "low-stock", t)

\* the shopping lists autoAddExpiredToShoppingList can leave
AutoAddExpiredLists(pantry, list, t, z) ==
    ForEachAdd(list, ExpiredItems(pantry, t, z), ReplaceQuantity, "expired", t)

RemoveItemKeepMatching(pantry, id) ==
    SelectSeq(pantry, LAMBDA item : item.id = id)

\* state.items.filter(item => item.id !== id)
RemoveItemList(pantry, id) ==
    SelectSeq(pantry, LAMBDA item : item.id # id)

ClearCheckedKeepChecked(list) ==
    SelectSeq(list, LAMBDA item : item.checked)

\* state.shoppingList.filter(item => !item.checked)
ClearCheckedList(list) ==
    SelectSeq(list, LAMBDA item : ~item.checked)

---------------------------------------------------------------------------
(* Actions of the store *)

Frame == UNCHANGED <<now, zone, expInput, status>>

Record(call) == lastCall' = call

AddItemFirst(data, cap) ==
    /\ Len(items) < cap
    /\ \E suffix \in RandomSuffixes(items, now) :
         LET newItem == Spread(Spread([id |-> generateId(now, suffix)], data),
                               [createdAt |-> now, updatedAt |-> now])
         IN  /\ items' = <<newItem>> \o items
             /\ Record(Call("addItem", 0, FALSE, NoData, NoData))
    /\ UNCHANGED shoppingList
    /\ Frame

AddItem(data, cap) ==
    /\ Len(items) < cap
    /\ \E suffix \in RandomSuffixes(items, now) :
         LET newItem == Spread(Spread([id |-> generateId(now, suffix)], data),
                               [createdAt |-> now, updatedAt |-> now])
         IN  /\ items' = Append(items, newItem)
             /\ Record(Call("addItem", 0, FALSE, NoData, NoData))
    /\ UNCHANGED shoppingList
    /\ Frame

UpdateItem(id, data) ==
    /\ items' = [i \in DOMAIN items |->
                   IF items[i].id = id
                   THEN Spread(Spread(items[i], data), [updatedAt |-> now])
                   ELSE items[i]]
    /\ Record(Call("updateItem", 0, id \in Ids(items), NoData, NoData))
    /\ UNCHANGED shoppingList
    /\ Frame

RemoveItemWithEntries(id) ==
    /\ items' = RemoveItemList(items, id)
    /\ Record(Call("removeItem", 0, id \in Ids(items), NoData, NoData))
    /\ shoppingList' = SelectSeq(shoppingList, LAMBDA entry :
            \A i \in DOMAIN items :
                items[i].id = id => ToLowerCase(items[i].name) # ToLowerCase(entry.name))
    /\ Frame

RemoveItem(id) ==
    /\ items' = RemoveItemList(items, id)
    /\ Record(Call("removeItem", 0, id \in Ids(items), NoData, NoData))
    /\ UNCHANGED shoppingList
    /\ Frame

AddToShoppingList(a, cap) ==
    /\ \E suffix \in RandomSuffixes(shoppingList, now) :
         LET next == addToShoppingList(shoppingList, a.name, a.category, a.quantity,
                                       a.unit, a.source, now, suffix)
         IN  /\ InBounds(next, cap)
             /\ shoppingList' = next
    /\ Record(Call("addToShoppingList", 0, FindByName(shoppingList, a.name) # 0, a,
                    IF lastCall.op = "addToShoppingList" /\ ~lastCall.found
                    THEN lastCall.args ELSE NoData))
    /\ UNCHANGED items
    /\ Frame

\* state.shoppingList.map((item) => item.id === id ? { ...item, checked: !item.checked } : item)
toggleShoppingItem(list, id) ==
    [i \in DOMAIN list |->
        IF list[i].id = id
        THEN [list[i] EXCEPT !.checked = ~list[i].checked]
        ELSE list[i]]

ToggleShoppingItem(id) ==
    /\ shoppingList' = toggleShoppingItem(shoppingList, id)
    /\ Record(Call("toggleShoppingItem", 0, id \in Ids(shoppingList), NoData, NoData))
    /\ UNCHANGED items
    /\ Frame

RemoveShoppingItem(id) ==
    /\ shoppingList' = SelectSeq(shoppingList, LAMBDA item : item.id # id)
    /\ Record(Call("removeShoppingItem", 0, id \in Ids(shoppingList), NoData, NoData))
    /\ UNCHANGED items
    /\ Frame

ClearCheckedItems ==
    /\ shoppingList' = ClearCheckedList(shoppingList)
    /\ Record(Call("clearCheckedItems", 0, \E i \in DOMAIN shoppingList : shoppingList[i].checked,
                    NoData, NoData))
    /\ UNCHANGED items
    /\ Frame

ClearShoppingList ==
    /\ shoppingList' = <<>>
    /\ Record(Call("clearShoppingList", 0, FALSE, NoData, NoData))
    /\ UNCHANGED items
    /\ Frame

AutoAddLowStockToShoppingList(cap) ==
    /\ LET lowStockItems == LowStockItems(items, now, zone)
       IN  /\ \E next \in AutoAddLowStockLists(items, shoppingList, now, zone) :
                /\ InBounds(next, cap)
                /\ shoppingList' = next
           /\ Record(Call("autoAddLowStockToShoppingList", Len(lowStockItems),
                          FALSE, NoData, NoData))
    /\ UNCHANGED items
    /\ Frame

AutoAddExpiredToShoppingList(cap) ==
    /\ LET expiredItems == ExpiredItems(items, now, zone)
       IN  /\ \E next \in AutoAddExpiredLists(items, shoppingList, now, zone) :
                /\ InBounds(next, cap)
                /\ shoppingList' = next
           /\ Record(Call("autoAddExpiredToShoppingList", Len(expiredItems),
                          FALSE, NoData, NoData))
    /\ UNCHANGED items
    /\ Frame

\* the clock moves on between two operations, here by a day
TicksSoFar == (now - StartNow) \div oneDay

Tick ==
    /\ TicksSoFar < MaxTicks
    /\ now' = now + oneDay
    /\ UNCHANGED <<items, shoppingList, zone, lastCall, expInput, status>>

\* what a specification does not follow stays as it is
NoStorage == [followed |-> FALSE]
NoView == [op |-> "none"]
NoDialog == [kind |-> "none"]
Aside == UNCHANGED <<storage, view, dialog>>

IdInputs == Ids(items) \cup Ids(shoppingList) \cup {UnknownId}

Init ==
    /\ items = <<>>
    /\ shoppingList = <<>>
    /\ now = StartNow
    /\ zone \in StoreZones
    /\ lastCall = NoCall
    /\ expInput = StartDay
    /\ status = "none"
    /\ storage = NoStorage
    /\ view = NoView
    /\ dialog = NoDialog

Next ==
    \/ (\E data \in PantryForms : AddItem(data, MaxItems)) /\ Aside
    \/ (\E id \in IdInputs, data \in UpdateForms : UpdateItem(id, data)) /\ Aside
    \/ (\E id \in IdInputs : RemoveItem(id)) /\ Aside
    \/ (\E a \in ShoppingForms : AddToShoppingList(a, MaxListed)) /\ Aside
    \/ (\E id \in IdInputs : ToggleShoppingItem(id)) /\ Aside
    \/ (\E id \in IdInputs : RemoveShoppingItem(id)) /\ Aside
    \/ ClearCheckedItems /\ Aside
    \/ ClearShoppingList /\ Aside
    \/ AutoAddLowStockToShoppingList(MaxListed) /\ Aside
    \/ AutoAddExpiredToShoppingList(MaxListed) /\ Aside

\* The whole store: every operation, called within one millisecond of the clock.
Spec == Init /\ [][Next]_vars

\* The shopping list alone, with the clock moving on between the calls.
NextShopping ==
    \/ (\E a \in ShoppingForms : AddToShoppingList(a, MaxShopping)) /\ Aside
    \/ (\E id \in IdInputs : ToggleShoppingItem(id)) /\ Aside
    \/ (\E id \in IdInputs : RemoveShoppingItem(id)) /\ Aside
    \/ ClearCheckedItems /\ Aside
    \/ ClearShoppingList /\ Aside
    \/ Tick /\ Aside

SpecShopping == Init /\ [][NextShopping]_vars

\* a form the screen's validation would refuse; addItem is called with it directly
BlankForm ==
    [name |-> <<>>, category |-> "Other", quantity |-> 0, unit |-> "pieces",
     expirationDate |-> StartDay]

\* PantryItemFormData values addItem is called with in the specification of the pantry
PantryAdds ==
    { f \in PantryForms : f.quantity < LowStockThreshold } \cup { BlankForm }

\* Partial<PantryItemFormData> values updateItem is called with there: one field, two fields
PantryUpdates ==
    UpdateForms \cup { [name |-> Eggs, quantity |-> 3] }

\* The pantry alone, with the clock moving on between the calls.
NextPantry ==
    \/ (\E data \in PantryAdds : AddItem(data, MaxPantry)) /\ Aside
    \/ (\E id \in IdInputs, data \in PantryUpdates : UpdateItem(id, data)) /\ Aside
    \/ (\E id \in IdInputs : RemoveItem(id)) /\ Aside
    \/ Tick /\ Aside

SpecPantry == Init /\ [][NextPantry]_vars

---------------------------------------------------------------------------
(* The classifier alone: getExpirationStatus applied to a date, at an instant *)
(* of a device in a time zone.                                                *)

\* 02:00 local standard time of the given day, as an instant, for offset std
TwoAmLocal(day, std) == day * oneDay + 2 * oneHour - std

\* the time zones followed: west and east of UTC, UTC, a half-hour offset, one
\* that moves its clock forward by an hour (02:00 becomes 03:00) and one that
\* moves it back by an hour (03:00 becomes 02:00) while the model runs
Zones ==
    { NoDst(0 - 5 * oneHour),
      NoDst(0),
      NoDst(2 * oneHour),
      NoDst(5 * oneHour + 30 * 60 * 1000),
      [std |-> 0 - 8 * oneHour, dstAt |-> TwoAmLocal(StartDay + 2, 0 - 8 * oneHour),
       dstDelta |-> oneHour],
      [std |-> 2 * oneHour, dstAt |-> TwoAmLocal(StartDay + 2, oneHour),
       dstDelta |-> 0 - oneHour] }

\* the instants of StartDay (UTC) the classifier specification starts at
StartInstants ==
    { StartDay * oneDay + h * oneHour : h \in {0, 3, 12, 21} }
    \cup { StartDay * oneDay + oneDay - 1 }

\* the expiration dates classified
ExpirationDates == (StartDay - 2) .. (StartDay + 8)

Classify(expirationDate) ==
    /\ expInput' = expirationDate
    /\ status' = getExpirationStatus(expirationDate, now, zone)
    /\ UNCHANGED <<items, shoppingList, now, zone, lastCall>>

NextDay ==
    /\ now + oneDay < (StartDay + MaxDays + 1) * oneDay
    /\ now' = now + oneDay
    /\ status' = "none"
    /\ UNCHANGED <<items, shoppingList, zone, lastCall, expInput>>

InitClassifier ==
    /\ items = <<>>
    /\ shoppingList = <<>>
    /\ now \in StartInstants
    /\ zone \in Zones
    /\ lastCall = NoCall
    /\ expInput = StartDay
    /\ status = "none"
    /\ storage = NoStorage
    /\ view = NoView
    /\ dialog = NoDialog

NextClassifier ==
    \/ (\E expirationDate \in ExpirationDates : Classify(expirationDate)) /\ Aside
    \/ NextDay /\ Aside

SpecClassifier == InitClassifier /\ [][NextClassifier]_vars

---------------------------------------------------------------------------
(* Persistence: the store is created inside persist(..., { name:             *)
(* 'pantry-storage', storage: createJSONStorage(() => AsyncStorage),         *)
(* partialize }) of zustand/middleware (src/store/usePantryStore.ts 52,      *)
(* 212-220).  The middleware wraps set: after every set it calls             *)
(* storage.setItem(name, JSON.stringify({ state: partialize(get()), version: *)
(* 0 })) without awaiting it.  At creation it calls storage.getItem(name);   *)
(* when that promise resolves it parses the text and sets the state to       *)
(* { ...get(), ...parsed.state } with the unwrapped set (no write); a parse  *)
(* error is caught and leaves the state alone.  AsyncStorage serves its      *)
(* requests in the order they were made, so the read returns what was stored *)
(* when the store was created, and the writes land in the order of the sets. *)
(*                                                                           *)
(* A JSON text is a tagged value: a literal, an array of texts, an object of *)
(* <<key, text>> members in the order written, text that does not parse, or  *)
(* no text at all (the key is absent).                                       *)

MaxSets == 3        \* calls of set followed, each starting a write
MaxStored == 2      \* pantry items and shopping entries kept at most, each, with storage followed

StorageVersion == 0

JsonLiteral(v) == [t |-> "lit", v |-> v]
JsonArray(elements) == [t |-> "arr", v |-> elements]
JsonObject(members) == [t |-> "obj", v |-> members]
Unparseable == [t |-> "bad", v |-> <<>>]
Absent == [t |-> "absent", v |-> <<>>]

\* the order in which the fields of an item, an entry and the state were written
PantryKeys == <<"id", "name", "category", "quantity", "unit", "expirationDate",
                "createdAt", "updatedAt">>
ShoppingKeys == <<"id", "name", "category", "quantity", "unit", "checked", "source",
                  "createdAt">>

\* JSON.stringify of an object of scalar fields: the fields it has, in key order
StringifyFlat(object, keys) ==
    LET present == SelectSeq(keys, LAMBDA k : k \in DOMAIN object)
    IN  JsonObject([i \in DOMAIN present |->
                       <<present[i], JsonLiteral(object[present[i]])>>])

StringifyList(list, keys) ==
    JsonArray([i \in DOMAIN list |-> StringifyFlat(list[i], keys)])

\* partialize: (state) => ({ items: state.items, shoppingList: state.shoppingList })
partialize(state) == [items |-> state.items, shoppingList |-> state.shoppingList]

\* JSON.stringify({ state, version }) of a partialized state
StringifyStorageValue(state, version) ==
    JsonObject(<< <<"state", JsonObject(<< <<"items", StringifyList(state.items, PantryKeys)>>,
                                           <<"shoppingList",
                                             StringifyList(state.shoppingList, ShoppingKeys)>> >>)>>,
                  <<"version", JsonLiteral(version)>> >>)

\* JSON.parse of a text that parses
RECURSIVE JsonParse(_)
JsonParse(text) ==
    CASE text.t = "lit" -> text.v
      [] text.t = "arr" -> [i \in DOMAIN text.v |-> JsonParse(text.v[i])]
      [] text.t = "obj" ->
            [k \in {text.v[i][1] : i \in DOMAIN text.v} |->
                JsonParse(text.v[CHOOSE i \in DOMAIN text.v :
                                    /\ text.v[i][1] = k
                                    /\ \A j \in DOMAIN text.v :
                                          text.v[j][1] = k => j <= i][2])]

\* the state of the store, as get() returns it: the collections and the operations
StoreState(pantry, list) ==
    [items |-> pantry, shoppingList |-> list, addItem |-> "function",
     updateItem |-> "function", removeItem |-> "function"]

\* hydrate(): what the state becomes when getItem resolves with text, and
\* whether hydration finished ("done") or its error was caught ("failed")
Rehydrate(text, current) ==
    IF text.t = "absent" THEN [outcome |-> "done", state |-> current]
    ELSE IF text.t = "bad" THEN [outcome |-> "failed", state |-> current]
    ELSE LET value == JsonParse(text)
         IN  IF "version" \in DOMAIN value /\ value.version # StorageVersion
             THEN [outcome |-> "done", state |-> current]
             ELSE IF "state" \in DOMAIN value
             THEN [outcome |-> "done", state |-> Spread(current, value.state)]
             ELSE [outcome |-> "done", state |-> current]

\* the text setItem() writes for a state of the store
StorageText(pantry, list) ==
    StringifyStorageValue(partialize(StoreState(pantry, list)), StorageVersion)

\* setItem(), once for each text: the writes the wrapped set starts, one after
\* each call of set
SetItems(texts) ==
    /\ storage.sets + Len(texts) <= MaxSets
    /\ storage' = [storage EXCEPT !.writes = @ \o texts, !.sets = @ + Len(texts)]
    /\ UNCHANGED <<view, dialog>>

\* an operation that calls set once
SetItem == SetItems(<<StorageText(items', shoppingList')>>)

\* the shopping lists a forEach of addToShoppingList calls passes through,
\* one after each call
RECURSIVE ForEachAddTrace(_, _, _, _, _)
ForEachAddTrace(list, selected, quantity, source, t) ==
    IF selected = <<>>
    THEN {<<>>}
    ELSE LET item == Head(selected)
         IN  UNION { LET after == addToShoppingList(list, item.name, item.category,
                                                    quantity, item.unit, source, t, suffix)
                     IN  { <<after>> \o rest :
                             rest \in ForEachAddTrace(after, Tail(selected), quantity,
                                                      source, t) } :
                     suffix \in RandomSuffixes(list, t) }

\* an auto-add that calls addToShoppingList, and with it set, once for each
\* selected item
SetItemsOfBatch(selected, quantity, source) ==
    \E trace \in ForEachAddTrace(shoppingList, selected, quantity, source, now) :
        /\ shoppingList' = IF trace = <<>> THEN shoppingList ELSE trace[Len(trace)]
        /\ SetItems([i \in DOMAIN trace |-> StorageText(items, trace[i])])

\* the oldest write in flight lands
WriteCompletes ==
    /\ storage.writes # <<>>
    /\ storage' = [storage EXCEPT !.disk = Head(storage.writes),
                                  !.writes = Tail(storage.writes)]
    /\ UNCHANGED <<items, shoppingList, now, zone, lastCall, expInput, status, view, dialog>>

\* the read started at creation resolves
HydrationCompletes ==
    /\ storage.hydration = "reading"
    /\ LET next == Rehydrate(storage.read, StoreState(items, shoppingList))
       IN  /\ items' = next.state.items
           /\ shoppingList' = next.state.shoppingList
           /\ storage' = [storage EXCEPT !.hydration = next.outcome]
    /\ UNCHANGED <<now, zone, lastCall, expInput, status, view, dialog>>

\* records found under the key at start: written by an earlier run (an item
\* without the optional updatedAt, an item with it, a checked entry), written
\* under another version, and valid JSON of another shape
StoredItems ==
    << [id |-> <<StartNow - oneDay, 0>>, name |-> Bread, category |-> "Bakery",
        quantity |-> 1, unit |-> "pieces", expirationDate |-> StartDay - 1,
        createdAt |-> StartNow - oneDay],
       [id |-> <<StartNow - oneDay, 1>>, name |-> Eggs, category |-> "Dairy",
        quantity |-> 3, unit |-> "pieces", expirationDate |-> StartDay + 4,
        createdAt |-> StartNow - oneDay, updatedAt |-> StartNow - oneHour] >>

StoredEntries ==
    << [id |-> <<StartNow - oneDay, 0>>, name |-> Eggs, category |-> "Dairy",
        quantity |-> 2, unit |-> "pieces", checked |-> TRUE, source |-> "manual",
        createdAt |-> StartNow - oneDay] >>

WellFormedStates ==
    { [items |-> StoredItems, shoppingList |-> StoredEntries],
      [items |-> SubSeq(StoredItems, 1, 1), shoppingList |-> <<>>] }

Misshapen ==
    JsonObject(<< <<"state", JsonObject(<< <<"items",
                      JsonArray(<< JsonObject(<< <<"name", JsonLiteral(Milk)>> >>) >>)>> >>)>>,
                  <<"version", JsonLiteral(StorageVersion)>> >>)

OtherVersion ==
    StringifyStorageValue([items |-> StoredItems, shoppingList |-> StoredEntries],
                          StorageVersion + 1)

StoredRecords ==
    { StringifyStorageValue(s, StorageVersion) : s \in WellFormedStates }
    \cup { Absent, Unparseable, Misshapen, OtherVersion }

\* the operations of the store are followed on collections of well-shaped elements
Usable ==
    /\ \A i \in DOMAIN items : \A k \in 1 .. 7 : PantryKeys[k] \in DOMAIN items[i]
    /\ \A i \in DOMAIN shoppingList :
          \A k \in DOMAIN ShoppingKeys : ShoppingKeys[k] \in DOMAIN shoppingList[i]

PersistAdds == { f \in PantryForms : f.quantity < LowStockThreshold }
PersistEntries == { a \in ShoppingForms : a.name = Eggs }

InitPersist ==
    /\ items = <<>>
    /\ shoppingList = <<>>
    /\ now = StartNow
    /\ zone \in StoreZones
    /\ lastCall = NoCall
    /\ expInput = StartDay
    /\ status = "none"
    /\ storage \in { [followed |-> TRUE, disk |-> text, read |-> text, writes |-> <<>>,
                      sets |-> 0, hydration |-> "reading"] : text \in StoredRecords }
    /\ view = NoView
    /\ dialog = NoDialog

NextPersist ==
    \/ Usable /\ (\E data \in PersistAdds : AddItem(data, MaxStored)) /\ SetItem
    \/ Usable /\ (\E id \in IdInputs, data \in UpdateForms : UpdateItem(id, data)) /\ SetItem
    \/ Usable /\ (\E id \in IdInputs : RemoveItem(id)) /\ SetItem
    \/ Usable /\ (\E a \in PersistEntries : AddToShoppingList(a, MaxStored)) /\ SetItem
    \/ Usable /\ (\E id \in IdInputs : ToggleShoppingItem(id)) /\ SetItem
    \/ Usable /\ (\E id \in IdInputs : RemoveShoppingItem(id)) /\ SetItem
    \/ Usable /\ ClearCheckedItems /\ SetItem
    \/ Usable /\ ClearShoppingList /\ SetItem
    \/ /\ Usable
       /\ AutoAddLowStockToShoppingList(MaxStored)
       /\ SetItemsOfBatch(LowStockItems(items, now, zone), RestockQuantity, "low-stock")
    \/ /\ Usable
       /\ AutoAddExpiredToShoppingList(MaxStored)
       /\ SetItemsOfBatch(ExpiredItems(items, now, zone), ReplaceQuantity, "expired")
    \/ WriteCompletes
    \/ HydrationCompletes

\* The store with its storage: every operation, the writes it starts and the
\* read started at creation, within one millisecond of the clock.
SpecPersist == InitPersist /\ [][NextPersist]_vars

---------------------------------------------------------------------------
(* Sorting and the read-side views.  Array.prototype.sort is stable: the    *)
(* element at index i of the array ends at the position that counts the     *)
(* elements the comparator puts before it, and the earlier ones it ranks    *)
(* equal to it.  It sorts the array it is called on; sortByExpirationDate   *)
(* and getSortedByExpiration call it on a copy ([...items]), so a sort      *)
(* yields the array returned and the array passed in as it is afterwards.   *)
(* Dates are parseable ones (the day number of a YYYY-MM-DD string).        *)

MaxSortLen == 3
MaxSorts == 2

\* compared[k][i] is what the comparator returns for array[k], array[i]
ArraySort(array, compared) ==
    LET Before(k, i) == \/ compared[k][i] < 0
                        \/ compared[k][i] = 0 /\ k < i
        Position(i) == 1 + Cardinality({k \in DOMAIN array : Before(k, i)})
    IN  [p \in DOMAIN array |-> array[CHOOSE i \in DOMAIN array : Position(i) = p]]

compareLatestFirst(a, b) ==
    ParseDate(b.expirationDate) - ParseDate(a.expirationDate)

\* (a, b) => new Date(a.expirationDate).getTime() - new Date(b.expirationDate).getTime()
compareExpirationDate(a, b) ==
    ParseDate(a.expirationDate) - ParseDate(b.expirationDate)

sortByExpirationDate(list) ==
    [result |-> ArraySort(list, [k \in DOMAIN list |-> [i \in DOMAIN list |->
                                   compareExpirationDate(list[k], list[i])]]),
     input |-> list]

\* the comparator getSortedByExpiration passes to sort, written out in the store
compareStoredExpiration(a, b) ==
    LET dateA == ParseDate(a.expirationDate)
        dateB == ParseDate(b.expirationDate)
    IN  dateA - dateB

getSortedByExpirationInPlace(state) ==
    LET sorted == ArraySort(state, [k \in DOMAIN state |-> [i \in DOMAIN state |->
                                      compareStoredExpiration(state[k], state[i])]])
    IN  [result |-> sorted, input |-> sorted]

\* [...get().items].sort(...): the array returned, and get().items afterwards
getSortedByExpiration(state) ==
    [result |-> ArraySort(state, [k \in DOMAIN state |-> [i \in DOMAIN state |->
                                    compareStoredExpiration(state[k], state[i])]]),
     input |-> state]

\* get().items.filter((item) => item.category === category)
getItemsByCategory(state, category) ==
    SelectSeq(state, LAMBDA item : item.category = category)

Undefined == [undefined |-> TRUE]

\* get().items.find((item) => item.id === id): the first such item, or undefined
getItemById(state, id) ==
    LET found == {i \in DOMAIN state : state[i].id = id}
    IN  IF found = {} THEN Undefined ELSE state[MinOf(found)]

\* the elements sortByExpirationDate is applied to: T extends { expirationDate }
Sortables ==
    { [id |-> n, expirationDate |-> d] :
        n \in {"a", "b"}, d \in {StartDay, StartDay + 1} }

SortInputs ==
    UNION { [1..n -> Sortables] : n \in 0..MaxSortLen }

InitSorter ==
    /\ items = <<>>
    /\ shoppingList = <<>>
    /\ now = StartNow
    /\ zone \in StoreZones
    /\ lastCall = NoCall
    /\ expInput = StartDay
    /\ status = "none"
    /\ storage = NoStorage
    /\ dialog = NoDialog
    /\ \E list \in SortInputs :
         view = [op |-> "input", calls |-> 0, result |-> list]

\* sortByExpirationDate(list), list being the input or what the last call returned
SortByExpirationDate ==
    /\ view.calls < MaxSorts
    /\ LET sorted == sortByExpirationDate(view.result)
       IN  view' = [op |-> "sortByExpirationDate", calls |-> view.calls + 1,
                    given |-> view.result, input |-> sorted.input,
                    result |-> sorted.result]
    /\ UNCHANGED <<items, shoppingList, now, zone, lastCall, expInput, status,
                   storage, dialog>>

NextSorter == SortByExpirationDate

\* The classifier's sort alone, applied to a sequence and to its own result.
SpecSorter == InitSorter /\ [][NextSorter]_vars

Categories == {"Dairy", "Other", "Beverages"}

\* the three read operations of the store; what is read lands in view
GetSortedByExpiration ==
    /\ LET sorted == getSortedByExpiration(items)
       IN  /\ view' = [op |-> "getSortedByExpiration", result |-> sorted.result]
           /\ items' = sorted.input
    /\ UNCHANGED <<shoppingList, now, zone, lastCall, expInput, status,
                   storage, dialog>>

GetItemsByCategory(category) ==
    /\ view' = [op |-> "getItemsByCategory", category |-> category,
                result |-> getItemsByCategory(items, category)]
    /\ UNCHANGED <<items, shoppingList, now, zone, lastCall, expInput, status,
                   storage, dialog>>

GetItemById(id) ==
    /\ view' = [op |-> "getItemById", id |-> id, result |-> getItemById(items, id)]
    /\ UNCHANGED <<items, shoppingList, now, zone, lastCall, expInput, status,
                   storage, dialog>>

\* The pantry and its reads.
NextViews ==
    \/ (\E data \in PantryForms : AddItem(data, MaxPantry)) /\ Aside
    \/ (\E id \in IdInputs : RemoveItem(id)) /\ Aside
    \/ GetSortedByExpiration
    \/ (\E category \in Categories : GetItemsByCategory(category))
    \/ (\E id \in IdInputs : GetItemById(id))

SpecViews == Init /\ [][NextViews]_vars

---------------------------------------------------------------------------
(* The auto-add operations on a pantry of several items of one name.        *)

MaxBatch == 4
MaxBatchListed == 2

\* what the pantry items were added with: two low-stock fresh items and two
\* expired ones of one name in different letter case, and an expired item of another
BatchForms ==
    PantryForms \cup
    { [name |-> milk, category |-> "Other", quantity |-> 1, unit |-> "pieces",
       expirationDate |-> StartDay + 3],
      [name |-> Bread, category |-> "Bakery", quantity |-> 1, unit |-> "pieces",
       expirationDate |-> StartDay - 1] }

\* the pantry after addItem(forms[1]), addItem(forms[2]), ... the day before
PantryOf(forms) ==
    [i \in DOMAIN forms |->
        Spread(Spread([id |-> generateId(StartNow - oneDay, i)], forms[i]),
               [createdAt |-> StartNow - oneDay, updatedAt |-> StartNow - oneDay])]

InitBatch ==
    /\ \E forms \in UNION { [1..n -> BatchForms] : n \in 0..MaxBatch } :
         items = PantryOf(forms)
    /\ shoppingList = <<>>
    /\ now = StartNow
    /\ zone \in StoreZones
    /\ lastCall = NoCall
    /\ expInput = StartDay
    /\ status = "none"
    /\ storage = NoStorage
    /\ view = NoView
    /\ dialog = NoDialog

NextBatch ==
    \/ AutoAddLowStockToShoppingList(MaxBatchListed) /\ Aside
    \/ AutoAddExpiredToShoppingList(MaxBatchListed) /\ Aside
    \/ ClearShoppingList /\ Aside

\* The auto-add operations applied to a pantry filled earlier.
SpecBatch == InitBatch /\ [][NextBatch]_vars

MaxListingPantry == 2

\* what addToShoppingList is called with by hand there: a name the pantry
\* holds in another letter case, and another name
ListingForms == { a \in ShoppingForms : a.name \in {MILK, Bread} }

InitListing ==
    /\ \E forms \in UNION { [1..n -> BatchForms] : n \in 0..MaxListingPantry } :
         items = PantryOf(forms)
    /\ shoppingList = <<>>
    /\ now = StartNow
    /\ zone \in StoreZones
    /\ lastCall = NoCall
    /\ expInput = StartDay
    /\ status = "none"
    /\ storage = NoStorage
    /\ view = NoView
    /\ dialog = NoDialog

\* Every operation on the shopping list, on a pantry filled earlier.
NextListing ==
    \/ NextBatch
    \/ (\E a \in ListingForms : AddToShoppingList(a, MaxBatchListed)) /\ Aside
    \/ (\E id \in Ids(shoppingList) : ToggleShoppingItem(id)) /\ Aside
    \/ (\E id \in Ids(shoppingList) : RemoveShoppingItem(id)) /\ Aside
    \/ ClearCheckedItems /\ Aside

SpecListing == InitListing /\ [][NextListing]_vars

---------------------------------------------------------------------------
(* The form of AddItemScreen (src/app/add-item.tsx).  What is typed into a  *)
(* field is a sequence of characters.  The quantity field keeps             *)
(* parseFloat(text) || 0; the name and the expiration date keep the text.   *)
(* handleSave passes the form data to the store; there a YYYY-MM-DD string  *)
(* is its day number.                                                       *)

Digits == <<"0", "1", "2", "3", "4", "5", "6", "7", "8", "9">>

IsDigit(c) == \E n \in DOMAIN Digits : Digits[n] = c

DigitValue(c) == (CHOOSE n \in DOMAIN Digits : Digits[n] = c) - 1

RECURSIVE DecimalValue(_)
DecimalValue(text) ==
    IF text = <<>> THEN 0
    ELSE 10 * DecimalValue(SubSeq(text, 1, Len(text) - 1)) + DigitValue(text[Len(text)])

NaN == [isNaN |-> TRUE, value |-> 0]

\* parseFloat of a text without decimal point or exponent: an optional sign,
\* then the digits the text starts with; NaN when there is none
parseFloat(text) ==
    LET negative == text # <<>> /\ Head(text) = "-"
        rest == IF text # <<>> /\ Head(text) \in {"-", "+"} THEN Tail(text) ELSE text
        run == {n \in 0..Len(rest) : \A i \in 1..n : IsDigit(rest[i])}
        digits == SubSeq(rest, 1, CHOOSE n \in run : \A m \in run : m <= n)
    IN  IF digits = <<>> THEN NaN
        ELSE [isNaN |-> FALSE,
              value |-> IF negative THEN 0 - DecimalValue(digits) ELSE DecimalValue(digits)]

\* onChangeText of the quantity field: parseFloat(text) || 0
QuantityOfText(text) ==
    LET num == parseFloat(text)
    IN  IF num.isNaN \/ num.value = 0 THEN 0 ELSE num.value

IsWhiteSpace(c) == c \in {" ", "\t", "\n"}

\* String.prototype.trim
RECURSIVE trim(_)
trim(text) ==
    IF text = <<>> THEN <<>>
    ELSE IF IsWhiteSpace(Head(text)) THEN trim(Tail(text))
    ELSE IF IsWhiteSpace(text[Len(text)]) THEN trim(SubSeq(text, 1, Len(text) - 1))
    ELSE text

\* /^\d{4}-\d{2}-\d{2}$/.test(text)
dateRegexTest(text) ==
    /\ Len(text) = 10
    /\ \A i \in {1, 2, 3, 4, 6, 7, 9, 10} : IsDigit(text[i])
    /\ text[5] = "-"
    /\ text[8] = "-"

\* the day number since the epoch of the civil date y-m-d
DaysFromCivil(y, m, d) ==
    LET year == IF m <= 2 THEN y - 1 ELSE y
        era == year \div 400
        yoe == year - era * 400
        doy == (153 * (IF m > 2 THEN m - 3 ELSE m + 9) + 2) \div 5 + d - 1
        doe == yoe * 365 + yoe \div 4 - yoe \div 100 + doy
    IN  era * 146097 + doe - 719468

\* the day number a YYYY-MM-DD string is represented by
DayNumber(text) ==
    DaysFromCivil(DecimalValue(SubSeq(text, 1, 4)), DecimalValue(SubSeq(text, 6, 7)),
                  DecimalValue(SubSeq(text, 9, 10)))

validateAnyQuantity(formData) ==
    LET newErrors ==
            (IF trim(formData.name) = <<>> THEN {"name"} ELSE {})
            \cup (IF formData.expirationDate = <<>> \/ ~dateRegexTest(formData.expirationDate)
                  THEN {"expirationDate"} ELSE {})
    IN  [errors |-> newErrors, valid |-> newErrors = {}]

\* validate(): the errors it sets and what it returns
validate(formData) ==
    LET newErrors ==
            (IF trim(formData.name) = <<>> THEN {"name"} ELSE {})
            \cup (IF formData.quantity <= 0 THEN {"quantity"} ELSE {})
            \cup (IF formData.expirationDate = <<>> THEN {"expirationDate"}
                  ELSE IF ~dateRegexTest(formData.expirationDate) THEN {"expirationDate"}
                  ELSE {})
    IN  [errors |-> newErrors, valid |-> Cardinality(newErrors) = 0]

\* the form data as the store holds it
AsStored(formData) ==
    [formData EXCEPT !.expirationDate = DayNumber(formData.expirationDate)]

\* params.editId of a screen opened to add an item
NoEditId == <<>>

MaxForm == 2

\* what is typed into the name, the quantity and the expiration date field
NameTexts == { <<>>, <<" ">>, Milk, <<" ", "E", "g", "g", "s">> }

QuantityTexts == { <<>>, <<"a", "b", "c">>, <<"0">>, <<"-", "1">>, <<"1">> }

DateTexts ==
    { <<>>,
      <<"1", "2", "/", "3", "1", "/", "1", "9", "7", "0">>,
      <<"1", "9", "7", "0", "-", "0", "1", "-", "1", "4">>,
      <<"1", "9", "7", "0", "-", "0", "1", "-", "1", "0">> }

\* the form data after typing
FormInputs ==
    { [name |-> n, category |-> "Other", quantity |-> QuantityOfText(q),
       unit |-> "pieces", expirationDate |-> d] :
        n \in NameTexts, q \in QuantityTexts, d \in DateTexts }

\* forms the screens save: a low-stock item, and an expired one
SavedForms ==
    { f \in FormInputs : f.name = Milk /\ validate(f).valid }

---------------------------------------------------------------------------
(* The screens: PantryScreen (src/app/(tabs)/_layout.tsx), AddItemScreen    *)
(* (src/app/add-item.tsx) and ShoppingScreen (src/unnamed/part_000) call    *)
(* the store from their handlers.  Alert.alert(title, message, buttons)     *)
(* opens a modal dialog; dialog holds the one that is open, and after it    *)
(* closed, the button that closed it.  Pressing a button closes the dialog  *)
(* and runs the button's onPress, if it has one.                            *)

MaxCards == 1
MaxRows == 1

NoneOpen == dialog.kind = "none"

Open(screen, title, id) == dialog' = [kind |-> title, id |-> id, screen |-> screen]

\* a handler that only opens a dialog
Alert(screen, title, id) ==
    /\ NoneOpen
    /\ Open(screen, title, id)
    /\ UNCHANGED <<items, shoppingList, now, zone, lastCall, expInput, status,
                   storage, view>>

Closed(button) == dialog' = [kind |-> "none", pressed |-> button]

OnScreen == UNCHANGED <<storage, view, dialog>>

\* AddItemScreen.handleSave: validate(), then updateItem in edit mode, addItem otherwise
HandleSave(formData, editId, cap) ==
    /\ NoneOpen
    /\ LET checked == validate(formData)
       IN  /\ view' = [op |-> "handleSave", formData |-> formData, editId |-> editId,
                        errors |-> checked.errors]
           /\ IF ~checked.valid
              THEN UNCHANGED <<items, shoppingList, now, zone, lastCall, expInput, status>>
              ELSE IF editId # NoEditId
              THEN UpdateItem(editId, AsStored(formData))
              ELSE AddItem(AsStored(formData), cap)
    /\ UNCHANGED <<storage, dialog>>

\* PantryScreen.handleDelete(id), from the card of an item
PantryHandleDelete(id) == Alert("PantryScreen", "Delete Item", id)

\* AddItemScreen.handleDelete, the screen editing the item params.editId
AddItemHandleDelete(editId) == Alert("AddItemScreen", "Delete Item", editId)

\* ShoppingScreen.handleAutoAddLowStock / handleAutoAddExpired: the store is
\* called, then a dialog tells the count
HandleAutoAddLowStock ==
    /\ NoneOpen
    /\ AutoAddLowStockToShoppingList(MaxRows)
    /\ Open("ShoppingScreen", IF lastCall'.ret > 0 THEN "Items Added" ELSE "No Items",
            UnknownId)
    /\ UNCHANGED <<storage, view>>

HandleAutoAddExpired ==
    /\ NoneOpen
    /\ AutoAddExpiredToShoppingList(MaxRows)
    /\ Open("ShoppingScreen", IF lastCall'.ret > 0 THEN "Items Added" ELSE "No Items",
            UnknownId)
    /\ UNCHANGED <<storage, view>>

HandleToggle(id) == NoneOpen /\ ToggleShoppingItem(id) /\ OnScreen

\* ShoppingScreen.handleDelete(id), from the row of an entry
ShoppingHandleDelete(id) == NoneOpen /\ RemoveShoppingItem(id) /\ OnScreen

HandleClearChecked == Alert("ShoppingScreen", "Clear Checked Items", UnknownId)

HandleClearAll == Alert("ShoppingScreen", "Clear Shopping List", UnknownId)

\* the button { text: 'Cancel', style: 'cancel' } of each dialog: no onPress
PressCancel ==
    /\ dialog.kind \in {"Delete Item", "Clear Checked Items", "Clear Shopping List"}
    /\ Closed("Cancel")
    /\ UNCHANGED <<items, shoppingList, now, zone, lastCall, expInput, status,
                   storage, view>>

\* the one button of a dialog that tells a count
PressOk ==
    /\ dialog.kind \in {"Items Added", "No Items"}
    /\ Closed("OK")
    /\ UNCHANGED <<items, shoppingList, now, zone, lastCall, expInput, status,
                   storage, view>>

\* the other button of each dialog that asks, and its onPress
PressDelete ==
    /\ dialog.kind = "Delete Item"
    /\ RemoveItem(dialog.id)
    /\ Closed("Delete")
    /\ UNCHANGED <<storage, view>>

PressClear ==
    /\ dialog.kind = "Clear Checked Items"
    /\ ClearCheckedItems
    /\ Closed("Clear")
    /\ UNCHANGED <<storage, view>>

PressClearAll ==
    /\ dialog.kind = "Clear Shopping List"
    /\ ClearShoppingList
    /\ Closed("Clear All")
    /\ UNCHANGED <<storage, view>>

NextScreens ==
    \/ \E formData \in SavedForms : HandleSave(formData, NoEditId, MaxCards)
    \/ \E id \in Ids(items) : PantryHandleDelete(id)
    \/ \E editId \in Ids(items) : AddItemHandleDelete(editId)
    \/ HandleAutoAddLowStock
    \/ HandleAutoAddExpired
    \/ \E id \in Ids(shoppingList) : HandleToggle(id)
    \/ \E id \in Ids(shoppingList) : ShoppingHandleDelete(id)
    \/ HandleClearChecked
    \/ HandleClearAll
    \/ PressCancel
    \/ PressOk
    \/ PressDelete
    \/ PressClear
    \/ PressClearAll

\* The store driven from the screens.
SpecScreens == Init /\ [][NextScreens]_vars

NextForm ==
    \E formData \in FormInputs, editId \in Ids(items) \cup {NoEditId} :
        HandleSave(formData, editId, MaxForm)

\* The form alone: any form data saved, to add an item or to edit one.
SpecForm == Init /\ [][NextForm]_vars

---------------------------------------------------------------------------
(* Properties *)

SameName(a, b) == ToLowerCase(a) = ToLowerCase(b)

\* the indices of the entries of list whose name equals name up to letter case
Named(list, name) == {i \in DOMAIN list : SameName(list[i].name, name)}

IsAddAfterAdd ==
    /\ lastCall.op = "addToShoppingList"
    /\ "name" \in DOMAIN lastCall.prior
    /\ SameName(lastCall.prior.name, lastCall.args.name)

\* C1: when addToShoppingList is called for a name the list does not hold and
\* then again for a name equal to it up to letter case, the list holds exactly
\* one entry of that name, with the sum of the two quantities and the source of
\* the first call.
C1_MergeLaw ==
    IsAddAfterAdd =>
        /\ Cardinality(Named(shoppingList, lastCall.args.name)) = 1
        /\ \A i \in Named(shoppingList, lastCall.args.name) :
              /\ shoppingList[i].quantity
                     = lastCall.prior.quantity + lastCall.args.quantity
              /\ shoppingList[i].source = lastCall.prior.source

\* C1 witness: the second call differed from the first in letter case, in
\* quantity and in source.
C1_Witness ==
    /\ IsAddAfterAdd
    /\ lastCall.prior.name # lastCall.args.name
    /\ lastCall.prior.source # lastCall.args.source
    /\ lastCall.prior.quantity # lastCall.args.quantity

IsExpired(item) == getExpirationStatus(item.expirationDate, now, zone) = "expired"

\* the pantry items, in pantry order, with quantity below the threshold and not expired
Restockable == SelectSeq(items, LAMBDA item :
                   item.quantity < LowStockThreshold /\ ~IsExpired(item))

\* the pantry items, in pantry order, that are expired
Replaceable == SelectSeq(items, IsExpired)

\* instants of the local calendar day of now: its first, now, and its last
InstantsOfToday ==
    { SetHoursZero(zone, now), now, SetHoursZero(zone, now) + oneDay - 1 }

Occurs(seq, x) == \E k \in DOMAIN seq : seq[k] = x

\* C2: autoAddLowStockToShoppingList does nothing on behalf of an expired pantry
\* item, also one with a quantity below the threshold: it returns the count
\* without them, leaves the list it would leave were they not in the pantry,
\* and leaves the list alone when every low-stock item is expired; and at no
\* two instants of one day is a pantry item selected by both auto-add operations.
C2_LowStockSkipsExpired ==
    [][ /\ lastCall'.op \in {"autoAddLowStockToShoppingList",
                              "autoAddExpiredToShoppingList"} =>
              \A t1 \in InstantsOfToday, t2 \in InstantsOfToday :
                 \A i \in DOMAIN items :
                    ~ ( /\ Occurs(LowStockItems(items, t1, zone), items[i])
                        /\ Occurs(ExpiredItems(items, t2, zone), items[i]) )
        /\ lastCall'.op = "autoAddLowStockToShoppingList" =>
              /\ lastCall'.ret = Len(SelectSeq(items, LAMBDA item :
                                         ~IsExpired(item)
                                         /\ item.quantity < LowStockThreshold))
              /\ shoppingList' \in AutoAddLowStockLists(
                     SelectSeq(items, LAMBDA item : ~IsExpired(item)),
                     shoppingList, now, zone)
              /\ (\A i \in DOMAIN items :
                      items[i].quantity < LowStockThreshold => IsExpired(items[i]))
                 => shoppingList' = shoppingList /\ lastCall'.ret = 0
      ]_vars

\* C2 witness: autoAddLowStockToShoppingList has run on a pantry holding an
\* expired item with a quantity below the threshold, and added nothing for it.
C2_Witness ==
    /\ lastCall.op = "autoAddLowStockToShoppingList"
    /\ lastCall.ret = 0
    /\ shoppingList = <<>>
    /\ \E i \in DOMAIN items :
          items[i].quantity < LowStockThreshold /\ IsExpired(items[i])

\* C3: autoAddLowStockToShoppingList returns the number of pantry items with a
\* quantity below 2 that are not expired and calls addToShoppingList(name,
\* category, 2, unit, 'low-stock') for each, in pantry order; on an empty list
\* with one such item it returns 1 and the list becomes one entry with that
\* item's name, category and unit, quantity 2, source 'low-stock', unchecked.
C3_LowStockRestock ==
    [][ lastCall'.op = "autoAddLowStockToShoppingList" =>
          /\ lastCall'.ret = Len(Restockable)
          /\ shoppingList' \in ForEachAdd(shoppingList, Restockable, 2, "low-stock", now)
          /\ (shoppingList = <<>> /\ Len(Restockable) = 1) =>
                /\ lastCall'.ret = 1
                /\ Len(shoppingList') = 1
                /\ shoppingList'[1].name = Restockable[1].name
                /\ shoppingList'[1].category = Restockable[1].category
                /\ shoppingList'[1].unit = Restockable[1].unit
                /\ shoppingList'[1].quantity = 2
                /\ shoppingList'[1].source = "low-stock"
                /\ shoppingList'[1].checked = FALSE
      ]_vars

\* C3 witness: the operation has run on an empty list with one matching item,
\* of quantity 1, and left one entry of quantity 2.
C3_Witness ==
    /\ lastCall.op = "autoAddLowStockToShoppingList"
    /\ lastCall.ret = 1
    /\ Len(Restockable) = 1
    /\ Restockable[1].quantity = 1
    /\ Len(shoppingList) = 1
    /\ shoppingList[1].name = Restockable[1].name
    /\ shoppingList[1].quantity = 2
    /\ shoppingList[1].source = "low-stock"
    /\ ~shoppingList[1].checked

\* C4: autoAddExpiredToShoppingList returns the number of expired pantry items,
\* whatever their quantity, and calls addToShoppingList(name, category, 1, unit,
\* 'expired') for each: an entry it appends has source 'expired', is unchecked
\* and carries one unit for each expired item of its name; with no expired
\* item in the pantry the list is left alone.
C4_ExpiredReplace ==
    [][ lastCall'.op = "autoAddExpiredToShoppingList" =>
          /\ lastCall'.ret = Len(Replaceable)
          /\ shoppingList' \in ForEachAdd(shoppingList, Replaceable, 1, "expired", now)
          /\ Replaceable = <<>> => shoppingList' = shoppingList
          /\ \A j \in DOMAIN shoppingList' \ DOMAIN shoppingList :
                /\ shoppingList'[j].source = "expired"
                /\ shoppingList'[j].checked = FALSE
                /\ \E k \in DOMAIN Replaceable :
                      /\ shoppingList'[j].name = Replaceable[k].name
                      /\ shoppingList'[j].category = Replaceable[k].category
                      /\ shoppingList'[j].unit = Replaceable[k].unit
                /\ Len(Replaceable) = 1 => shoppingList'[j].quantity = 1
      ]_vars

\* C4 witness: the operation has run on a pantry whose only expired item is
\* well stocked, and appended an entry of quantity 1 for it.
C4_Witness ==
    /\ lastCall.op = "autoAddExpiredToShoppingList"
    /\ lastCall.ret = 1
    /\ Len(Replaceable) = 1
    /\ Replaceable[1].quantity >= LowStockThreshold
    /\ Len(items) = 2
    /\ Len(shoppingList) = 1
    /\ shoppingList[1].name = Replaceable[1].name
    /\ shoppingList[1].quantity = 1
    /\ shoppingList[1].source = "expired"

\* C5: when addToShoppingList matches an existing entry, that entry's quantity
\* grows by the quantity given and nothing else changes: its other fields, its
\* position and every other entry stay as they were.
C5_MergeTouchesOneEntry ==
    [][ (lastCall'.op = "addToShoppingList" /\ lastCall'.found /\ now' = now) =>
          \E k \in Named(shoppingList, lastCall'.args.name) :
             shoppingList' = [shoppingList EXCEPT
                                 ![k].quantity = @ + lastCall'.args.quantity]
      ]_vars

\* C6: updateItem, removeItem, toggleShoppingItem and removeShoppingItem called
\* with an id that no element of the targeted collection carries leave the
\* pantry and the shopping list exactly as they were.
C6_UnknownIdNoOp ==
    [][ ( /\ lastCall'.op \in {"updateItem", "removeItem",
                               "toggleShoppingItem", "removeShoppingItem"}
          /\ ~lastCall'.found )
        => (items' = items /\ shoppingList' = shoppingList)
      ]_vars

\* C6 witness: removeItem has been called with an unknown id on a store that
\* holds a pantry item and a shopping entry.
C6_Witness ==
    /\ lastCall.op = "removeItem"
    /\ ~lastCall.found
    /\ items # <<>>
    /\ shoppingList # <<>>

\* the j-th smallest element of the set S of numbers
Nth(S, j) == CHOOSE i \in S : Cardinality({k \in S : k < i}) = j - 1

\* C7: clearCheckedItems leaves the unchecked entries, each as it was and in
\* the order they were in, and no checked one; the pantry is left alone.
C7_ClearCheckedKeepsUnchecked ==
    [][ lastCall'.op = "clearCheckedItems" =>
          LET kept == {i \in DOMAIN shoppingList : ~shoppingList[i].checked}
          IN  /\ Len(shoppingList') = Cardinality(kept)
              /\ \A j \in DOMAIN shoppingList' :
                    shoppingList'[j] = shoppingList[Nth(kept, j)]
              /\ items' = items
      ]_vars

\* C7 witness: clearCheckedItems has removed a checked entry and left an
\* unchecked one.
C7_Witness ==
    /\ lastCall.op = "clearCheckedItems"
    /\ lastCall.found
    /\ Len(shoppingList) = 1
    /\ ~shoppingList[1].checked

\* the local calendar day of instant t
CalendarDay(z, t) == LocalWall(z, t) \div oneDay

\* the days from today's local midnight to the local midnight of the day the
\* expiration date falls on
DaysUntil == CalendarDay(zone, ParseDate(expInput)) - CalendarDay(zone, now)

\* C8: getExpirationStatus returns expired when the expiration date's midnight
\* lies d < 0 days after today's midnight, expiring when 0 <= d <= 3, fresh when
\* d > 3, and nothing else.
C8_StatusByDays ==
    status # "none" =>
        /\ status \in {"expired", "expiring", "fresh"}
        /\ (status = "expired") <=> (DaysUntil < 0)
        /\ (status = "expiring") <=> (0 <= DaysUntil /\ DaysUntil <= 3)
        /\ (status = "fresh") <=> (DaysUntil > 3)

\* C8 witness: a date three days ahead has been classified as expiring, in a
\* zone whose clock changed in between.
C8_Witness ==
    /\ status = "expiring"
    /\ DaysUntil = 3
    /\ OffsetAt(zone, now) # OffsetAt(zone, ParseDate(expInput))

\* C9: at every time of day and in every time zone, the date of the device's
\* current local calendar day is classified expiring, the day before expired,
\* three days later expiring and four days later fresh.
C9_LocalDayBoundaries ==
    status # "none" =>
        LET today == CalendarDay(zone, now)
        IN  /\ expInput = today => status = "expiring"
            /\ expInput = today - 1 => status = "expired"
            /\ expInput = today + 3 => status = "expiring"
            /\ expInput = today + 4 => status = "fresh"

\* C10: no two pantry items carry the same id, and no two shopping entries do.
C10_UniqueIds ==
    /\ \A i \in DOMAIN items : \A j \in DOMAIN items :
          i # j => items[i].id # items[j].id
    /\ \A i \in DOMAIN shoppingList : \A j \in DOMAIN shoppingList :
          i # j => shoppingList[i].id # shoppingList[j].id

\* a step that is a call of the store operation op
IsCallOf(op) == lastCall'.op = op /\ now' = now /\ view' = view /\ storage = storage'

\* item with the fields of data replaced and updatedAt set to instant t
Updated(item, data, t) ==
    [f \in DOMAIN item \cup DOMAIN data \cup {"updatedAt"} |->
        IF f = "updatedAt" THEN t
        ELSE IF f \in DOMAIN data THEN data[f] ELSE item[f]]

\* C11: updateItem called with the id of a pantry item replaces the fields
\* given in that item and sets its updatedAt to now; its id, createdAt and
\* position, every other pantry item, the number of items and the shopping
\* list stay as they were.
C11_UpdateTouchesOneItem ==
    [][ (IsCallOf("updateItem") /\ lastCall'.found) =>
          /\ \E k \in DOMAIN items, data \in PantryUpdates :
                /\ "id" \notin DOMAIN data /\ "createdAt" \notin DOMAIN data
                /\ items' = [items EXCEPT ![k] = Updated(items[k], data, now)]
          /\ shoppingList' = shoppingList
      ]_vars

\* C12: addItem is refused for no form; it leaves the pantry one item longer,
\* the items it held as they were and in their order, and the new item last,
\* with the fields of the form, an id generated at this instant and createdAt
\* and updatedAt both now.
C12_AddItemAppends ==
    [][ /\ Len(items) < MaxPantry =>
              \A data \in PantryAdds : ENABLED (AddItem(data, MaxPantry) /\ Aside)
        /\ IsCallOf("addItem") =>
              /\ Len(items') = Len(items) + 1
              /\ \A i \in DOMAIN items : items'[i] = items[i]
              /\ LET new == items'[Len(items')]
                 IN  /\ \E data \in PantryAdds :
                           /\ DOMAIN new = DOMAIN data \cup {"id", "createdAt", "updatedAt"}
                           /\ \A f \in DOMAIN data : new[f] = data[f]
                     /\ new.id = generateId(now, new.id[2])
                     /\ new.createdAt = now
                     /\ new.updatedAt = new.createdAt
              /\ shoppingList' = shoppingList
      ]_vars

\* C12 witness: addItem has appended the blank form, a day after the item
\* before it was created.
C12_Witness ==
    /\ lastCall.op = "addItem"
    /\ Len(items) = 2
    /\ items[2].name = <<>>
    /\ items[2].quantity = 0
    /\ items[2].createdAt = now
    /\ items[1].createdAt < now
    /\ items[1].name # <<>>

\* steps of the storage: the startup read resolves, a write lands
HydrationStep == storage.hydration = "reading" /\ storage'.hydration # "reading"
WriteStep == Len(storage'.writes) < Len(storage.writes)

\* the collections a JSON text holds under "state"
StoredState(text) == JsonParse(text).state

InMemory(pantry, list) == [items |-> pantry, shoppingList |-> list]

\* C13: every operation that changes a collection starts a write of the whole
\* { items, shoppingList } state, and once a mutation was made and no write
\* is in flight any more, the record in storage equals the state in memory.
C13_DurableEqualsMemory ==
    [][ /\ (~HydrationStep /\ ~WriteStep
            /\ (items' # items \/ shoppingList' # shoppingList)) =>
              /\ Len(storage'.writes) > Len(storage.writes)
              /\ StoredState(storage'.writes[Len(storage'.writes)])
                     = InMemory(items', shoppingList')
        /\ (storage'.sets > 0 /\ storage'.writes = <<>>) =>
              /\ storage'.disk.t = "obj"
              /\ StoredState(storage'.disk) = InMemory(items', shoppingList')
      ]_vars

\* C14: once a mutation was applied in memory, no step of the storage (a
\* write landing, the startup read resolving) changes the collections in memory.
C14_StorageNeverRevertsMemory ==
    [][ (storage.sets > 0 /\ (HydrationStep \/ WriteStep)) =>
          (items' = items /\ shoppingList' = shoppingList)
      ]_vars

\* C15: when the startup read resolves on the store as created, a well-formed
\* record makes the collections in memory equal to the stored ones, field
\* for field; an absent or malformed record leaves both empty; and hydration
\* ends without a fatal error.
C15_StartupRead ==
    [][ (HydrationStep /\ lastCall.op = "none") =>
          /\ \A s \in WellFormedStates :
                storage.read = StringifyStorageValue(s, StorageVersion) =>
                    (items' = s.items /\ shoppingList' = s.shoppingList)
          /\ storage.read \in {Absent, Unparseable, Misshapen} =>
                (items' = <<>> /\ shoppingList' = <<>>)
          /\ storage'.hydration \in {"done", "failed"}
      ]_vars

\* how many elements of list equal e
Count(list, e) == Cardinality({i \in DOMAIN list : list[i] = e})

IsPermutation(a, b) ==
    /\ Len(a) = Len(b)
    /\ \A i \in DOMAIN a : Count(a, a[i]) = Count(b, a[i])

Ascending(list) ==
    \A i, j \in DOMAIN list :
        i < j => ParseDate(list[i].expirationDate) <= ParseDate(list[j].expirationDate)

OfDate(list, d) == SelectSeq(list, LAMBDA e : e.expirationDate = d)

\* elements of equal date stand in sorted as they stand in list
KeepsOrderOfEqualDates(sorted, list) ==
    \A i \in DOMAIN list :
        OfDate(sorted, list[i].expirationDate) = OfDate(list, list[i].expirationDate)

\* C16: sortByExpirationDate returns a permutation of its input in ascending
\* order of expiration date, elements of equal date in their original
\* relative order; the input is as it was; sorting what a sort returned
\* returns it unchanged.
C16_SortByExpirationDate ==
    view.op = "sortByExpirationDate" =>
        /\ IsPermutation(view.result, view.given)
        /\ Ascending(view.result)
        /\ KeepsOrderOfEqualDates(view.result, view.given)
        /\ view.input = view.given
        /\ view.calls = MaxSorts => view.result = view.given

\* an unsorted input with two elements of one date has been sorted, and the
\* result sorted again
C16_Witness ==
    /\ view.op = "sortByExpirationDate"
    /\ view.calls = MaxSorts
    /\ Len(view.result) = 3
    /\ view.result[1].expirationDate = view.result[2].expirationDate
    /\ view.result[1] # view.result[2]
    /\ view.result[3].expirationDate # view.result[1].expirationDate

IsRead == view' # view

\* C17: getSortedByExpiration returns what sortByExpirationDate returns for
\* the stored pantry items, and a call of getSortedByExpiration,
\* getItemsByCategory or getItemById leaves the pantry items, their order and
\* everything else of the state as it was.
C17_ReadsAreViews ==
    [][ IsRead =>
          /\ items' = items
          /\ shoppingList' = shoppingList
          /\ UNCHANGED <<now, zone, lastCall, expInput, status, storage, dialog>>
          /\ view'.op = "getSortedByExpiration" =>
                view'.result = sortByExpirationDate(items).result ]_vars

\* the sorted view of a pantry whose stored order is not the sorted one
C17_Witness ==
    /\ view.op = "getSortedByExpiration"
    /\ Len(items) = 2
    /\ view.result # items
    /\ view.result[1].expirationDate = StartDay - 1

IsAutoAdd ==
    /\ lastCall'.op \in {"autoAddLowStockToShoppingList", "autoAddExpiredToShoppingList"}
    /\ now' = now

\* the pantry items the call matches, and the quantity it adds for each
Matched == IF lastCall'.op = "autoAddLowStockToShoppingList" THEN Restockable ELSE Replaceable

FixedQuantity == IF lastCall'.op = "autoAddLowStockToShoppingList" THEN 2 ELSE 1

\* the matched items of the name of the k-th, and whether that name is new to the list
SameNamed(k) == {j \in DOMAIN Matched : SameName(Matched[j].name, Matched[k].name)}

IsNewName(k) == Named(shoppingList, Matched[k].name) = {}

\* C18: an auto-add returns the number of matched pantry items; matched items
\* of one name (up to letter case) not yet on the list produce one entry, its
\* quantity the sum of their fixed quantities, its name, category and unit
\* those of the first of them; the list grows by the number of distinct new
\* names.
C18_AutoAddCountsItems ==
    [][ IsAutoAdd =>
          /\ lastCall'.ret = Len(Matched)
          /\ Len(shoppingList') = Len(shoppingList)
                + Cardinality({ToLowerCase(Matched[k].name) :
                                 k \in {j \in DOMAIN Matched : IsNewName(j)}})
          /\ \A k \in DOMAIN Matched :
                (IsNewName(k) /\ Cardinality(SameNamed(k)) > 1) =>
                   \E e \in DOMAIN shoppingList' :
                      /\ Named(shoppingList', Matched[k].name) = {e}
                      /\ shoppingList'[e].quantity = FixedQuantity * Cardinality(SameNamed(k))
                      /\ shoppingList'[e].name = Matched[MinOf(SameNamed(k))].name
                      /\ shoppingList'[e].category = Matched[MinOf(SameNamed(k))].category
                      /\ shoppingList'[e].unit = Matched[MinOf(SameNamed(k))].unit
      ]_vars

\* C19: toggleShoppingItem(id) with the id of an entry flips checked of that
\* one entry and changes nothing else, no other entry, no position, no pantry
\* item; toggling the same id again gives the list back.
C19_ToggleFlipsOneEntry ==
    [][ (lastCall'.op = "toggleShoppingItem" /\ lastCall'.found /\ now' = now) =>
          /\ items' = items
          /\ \E k \in DOMAIN shoppingList :
                /\ shoppingList' = [shoppingList EXCEPT ![k].checked = ~@]
                /\ toggleShoppingItem(shoppingList', shoppingList[k].id) = shoppingList
      ]_vars

\* a pantry item or a shopping entry is gone
TakesEffect ==
    \/ Len(items') < Len(items)
    \/ Len(shoppingList') < Len(shoppingList)

IsConfirmed ==
    /\ ~NoneOpen
    /\ dialog'.kind = "none"
    /\ dialog'.pressed \in {"Delete", "Clear", "Clear All"}

IsCancelled == ~NoneOpen /\ dialog'.kind = "none" /\ dialog'.pressed = "Cancel"

\* C20: in the screens, removeItem, removeShoppingItem, clearCheckedItems and
\* clearShoppingList take effect only in the step that presses the confirming
\* button of an open dialog, and pressing Cancel leaves both collections as
\* they were.
C20_DestructiveNeedsConfirm ==
    [][ /\ TakesEffect => IsConfirmed
        /\ IsCancelled => (items' = items /\ shoppingList' = shoppingList)
      ]_vars

IsBlank(text) == \A i \in DOMAIN text : text[i] \in {" ", "\t", "\n"}

\* the form data the claim lets through: the day numbers are those of the
\* well-formed dates typed
IsAcceptable(formData) ==
    /\ ~IsBlank(formData.name)
    /\ formData.quantity > 0
    /\ formData.expirationDate \in
          { <<"1", "9", "7", "0", "-", "0", "1", "-", "1", "4">>,
            <<"1", "9", "7", "0", "-", "0", "1", "-", "1", "0">> }

\* C21: Save calls addItem or updateItem only with a non-blank name, a
\* quantity > 0 and an expiration date of the form YYYY-MM-DD; when the form
\* data is not so, the store is not called and both collections stay as they
\* are; every pantry item the form created or edited has a quantity > 0 and
\* a non-blank name.
C21_SaveValidates ==
    [][ /\ IsAcceptable(view'.formData) =>
              lastCall'.op = (IF view'.editId = NoEditId THEN "addItem" ELSE "updateItem")
        /\ ~IsAcceptable(view'.formData) =>
              (items' = items /\ shoppingList' = shoppingList /\ lastCall' = lastCall)
        /\ \A i \in DOMAIN items' :
              items'[i].quantity > 0 /\ ~IsBlank(items'[i].name)
      ]_vars

\* a save refused for its quantity alone, of the screen editing an item
C21_Witness ==
    /\ view.op = "handleSave"
    /\ view.errors = {"quantity"}
    /\ view.editId \in Ids(items)
    /\ view.formData.quantity = 0

\* C22: no two entries of the shopping list have names equal up to letter
\* case, whatever store operations led to the state.
C22_NamesUnique ==
    \A i, j \in DOMAIN shoppingList :
        SameName(shoppingList[i].name, shoppingList[j].name) => i = j

\* a name was added in another letter case than the entry it merged into,
\* next to an entry of another name
C22_Witness ==
    /\ lastCall.op = "addToShoppingList"
    /\ lastCall.found
    /\ Len(shoppingList) = 2
    /\ \E i \in DOMAIN shoppingList :
          /\ SameName(shoppingList[i].name, lastCall.args.name)
          /\ shoppingList[i].name # lastCall.args.name

PantryOperations == {"addItem", "updateItem", "removeItem"}

ShoppingOperations ==
    {"addToShoppingList", "toggleShoppingItem", "removeShoppingItem", "clearCheckedItems",
     "clearShoppingList", "autoAddLowStockToShoppingList", "autoAddExpiredToShoppingList"}

\* C23: the operations on the shopping list, the auto-adds among them, leave
\* the pantry items as they are, and addItem, updateItem and removeItem leave
\* the shopping list as it is.
C23_CollectionsIndependent ==
    [][ /\ (lastCall'.op \in ShoppingOperations /\ now' = now) => items' = items
        /\ (lastCall'.op \in PantryOperations /\ now' = now) => shoppingList' = shoppingList
      ]_vars

\* a pantry item was removed, and the entry auto-added from it is on the list
C23_Witness ==
    /\ lastCall.op = "removeItem"
    /\ lastCall.found
    /\ shoppingList # <<>>
    /\ shoppingList[1].source \in {"low-stock", "expired"}
    /\ \A i \in DOMAIN items : ~SameName(items[i].name, shoppingList[1].name)

\* the matched pantry items of the name of an entry
MatchedOfName(name) == {k \in DOMAIN Matched : SameName(Matched[k].name, name)}

\* C24: an auto-add returns the number of matched pantry items each time it
\* is invoked; an entry already listed under the name of matched items,
\* checked or not and of whatever source, stays where it is and has its
\* quantity raised by 2 (low stock) or 1 (expired) for each of those items,
\* nothing else of it changed; no entry is created for a listed name, and a
\* matched name that is not listed (any more) gets an entry.
C24_AutoAddAgainAdds ==
    [][ IsAutoAdd =>
          /\ lastCall'.ret = Len(Matched)
          /\ Len(shoppingList') = Len(shoppingList)
                + Cardinality({ToLowerCase(Matched[k].name) :
                                 k \in {j \in DOMAIN Matched : IsNewName(j)}})
          /\ \A i \in DOMAIN shoppingList :
                MatchedOfName(shoppingList[i].name) # {} =>
                   shoppingList'[i] =
                      [shoppingList[i] EXCEPT
                          !.quantity = @ + FixedQuantity
                                             * Cardinality(MatchedOfName(shoppingList[i].name))]
          /\ \A k \in DOMAIN Matched : Named(shoppingList', Matched[k].name) # {}
      ]_vars

====
